---------------------------- MODULE Spec2Model ----------------------------
(***************************************************************************)
(* A model of the tag-files command line tool (src/tag/cli.py).            *)
(*                                                                         *)
(* Two state machines share the module:                                    *)
(*   SpecIndex  one run of the `index` command: the pre-check of OUTPUT,   *)
(*              file discovery, the construction of the index mapping and  *)
(*              the loop that creates parent directories and symlinks;     *)
(*   SpecTags   a session of the tag commands add / remove / clear / set / *)
(*              rename / sort applied to one file.                         *)
(*                                                                         *)
(* A Python string is a sequence of one-character strings, so that         *)
(* slicing, splitting and joining are computed as the code computes them.  *)
(* The module util (find_files, permute, rename_files) is not part of the  *)
(* sources at hand; FindFiles, Permute, GenerateName, ParseName and        *)
(* MkFile follow the written specification of these collaborators.         *)
(***************************************************************************)
EXTENDS Integers, Sequences, FiniteSets

VARIABLES
    \* ---- index command ----
    pc,         \* position of the index run
    abspath,    \* os.path.abspath(path), the search root
    disk,       \* File records of the regular files below the search root
    outState,   \* OUTPUT before the run: "absent", "empty", "nonempty", "file"
    flags,      \* [all, debug, recursive, tree, verbose]
    file_list,  \* the discovered files with at least one tag
    index,      \* key -> list of the files that claim it
    keys,       \* sorted(index.keys())
    ki, fi,     \* position of the two nested loops
    count,      \* the running count
    made,       \* directories created by os.makedirs
    links,      \* symlinks created, in order: [dst, src]
    echoed,     \* lines printed by click.echo
    err,        \* the exception that ended the run, or "none"
    \* ---- tag commands ----
    fileName,   \* the name on disk of the file the commands are given
    tagSet,     \* the tag set after the last command's handler ran
    trail       \* the last command, see NoTrail

ivars == <<pc, abspath, disk, outState, flags, file_list, index, keys, ki, fi,
           count, made, links, echoed, err>>
tvars == <<fileName, tagSet, trail>>
vars == <<ivars, tvars>>

(***************************************************************************)
(* Bounds.                                                                 *)
(***************************************************************************)
\* the number of files below the search root
MaxFiles == 2
\* the number of comma separated items of a TAGS argument
MaxListLen == 2

(***************************************************************************)
(* Python strings.                                                         *)
(***************************************************************************)
Range(s) == {s[i] : i \in 1..Len(s)}

\* ord(c) of the characters in use (ASCII)
Ord(c) ==
    CASE c = "," -> 44 [] c = "-" -> 45 [] c = "." -> 46 [] c = "/" -> 47
      [] c = "a" -> 97 [] c = "b" -> 98 [] c = "c" -> 99 [] c = "h" -> 104
      [] c = "o" -> 111 [] c = "r" -> 114 [] c = "t" -> 116 [] c = "x" -> 120
      [] c = "y" -> 121 [] c = "z" -> 122 [] c = "{" -> 123 [] c = "}" -> 125

\* s < t for Python str
RECURSIVE StrLess(_, _)
StrLess(s, t) ==
    IF t = <<>> THEN FALSE
    ELSE IF s = <<>> THEN TRUE
    ELSE IF Ord(Head(s)) # Ord(Head(t)) THEN Ord(Head(s)) < Ord(Head(t))
    ELSE StrLess(Tail(s), Tail(t))

\* sorted(S) for a collection of distinct strings
RECURSIVE Sorted(_)
Sorted(S) ==
    IF S = {} THEN <<>>
    ELSE LET m == CHOOSE x \in S : \A y \in S \ {x} : StrLess(x, y)
         IN <<m>> \o Sorted(S \ {m})

\* s[n:]
Drop(s, n) == IF n >= Len(s) THEN <<>> ELSE SubSeq(s, n + 1, Len(s))

\* the largest index of character c in s, 0 when there is none
LastIndex(s, c) ==
    LET I == {i \in 1..Len(s) : s[i] = c}
    IN IF I = {} THEN 0 ELSE CHOOSE i \in I : \A j \in I : j <= i

\* s.split(c)
RECURSIVE StrSplit(_, _)
StrSplit(s, c) ==
    LET I == {i \in 1..Len(s) : s[i] = c}
    IN IF I = {} THEN <<s>>
       ELSE LET i == CHOOSE k \in I : \A j \in I : k <= j
            IN <<SubSeq(s, 1, i - 1)>> \o StrSplit(Drop(s, i), c)

\* c.join(parts)
RECURSIVE StrJoin(_, _)
StrJoin(parts, c) ==
    IF parts = <<>> THEN <<>>
    ELSE IF Len(parts) = 1 THEN parts[1]
    ELSE parts[1] \o <<c>> \o StrJoin(Tail(parts), c)

\* os.path.join(a, b)
PathJoin(a, b) ==
    IF b # <<>> /\ Head(b) = "/" THEN b
    ELSE IF a = <<>> \/ a[Len(a)] = "/" THEN a \o b
    ELSE a \o <<"/">> \o b

\* os.path.join(a, *parts)
RECURSIVE PathJoinAll(_, _)
PathJoinAll(a, parts) ==
    IF parts = <<>> THEN a ELSE PathJoinAll(PathJoin(a, Head(parts)), Tail(parts))

\* head.rstrip('/')
RECURSIVE RStripSlash(_)
RStripSlash(s) ==
    IF s # <<>> /\ s[Len(s)] = "/" THEN RStripSlash(SubSeq(s, 1, Len(s) - 1)) ELSE s

\* os.path.split(p) = <<head, tail>>
PathSplit(p) ==
    LET i == LastIndex(p, "/")
        head == SubSeq(p, 1, i)
        tail == Drop(p, i)
    IN <<IF head # <<>> /\ Range(head) # {"/"} THEN RStripSlash(head) ELSE head, tail>>

\* os.path.splitext(p) = <<root, ext>>: the last dot starts the extension unless
\* only dots precede it in the last path component
SplitExt(p) ==
    LET sepIndex == LastIndex(p, "/")
        dotIndex == LastIndex(p, ".")
    IN IF dotIndex > sepIndex
          /\ \E i \in (sepIndex + 1)..(dotIndex - 1) : p[i] # "."
       THEN <<SubSeq(p, 1, dotIndex - 1), Drop(p, dotIndex - 1)>>
       ELSE <<p, <<>> >>

(***************************************************************************)
(* The tag codec and file discovery (module util).                         *)
(***************************************************************************)
\* '{t1}{t2}...' for a list of tags
RECURSIVE TagBlocks(_)
TagBlocks(ts) ==
    IF ts = <<>> THEN <<>> ELSE <<"{">> \o Head(ts) \o <<"}">> \o TagBlocks(Tail(ts))

\* the File record discovery yields for the file <base>{tags...}<ext> found in
\* the directory `sub` (a list of segments) below the search root
MkFile(root, sub, base, ts, ext) ==
    LET dir == PathJoinAll(root, sub)
    IN [original |-> PathJoin(dir, base \o TagBlocks(ts) \o ext),
        dir      |-> dir,
        filename |-> base \o ext,
        tags     |-> Range(ts)]

\* whether discovery treats the file as hidden
IsHidden(file) == Head(PathSplit(file.original)[2]) = "."

\* util.find_files: the files the walk hands to the handler
FindFiles(files, root, recursive, all) ==
    {f \in files : /\ (recursive \/ f.dir = root)
                   /\ (all \/ ~IsHidden(f))}

\* the orderings of a finite set
RECURSIVE Orderings(_)
Orderings(S) ==
    IF S = {} THEN {<<>>}
    ELSE UNION {{<<x>> \o o : o \in Orderings(S \ {x})} : x \in S}

\* the permutations of a list, in lexicographic order of positions
RECURSIVE Perms(_)
Perms(items) ==
    IF Len(items) <= 1 THEN <<items>>
    ELSE LET without(i) == SubSeq(items, 1, i - 1) \o Drop(items, i)
             block(i) == LET ps == Perms(without(i))
                         IN [k \in 1..Len(ps) |-> <<items[i]>> \o ps[k]]
             RECURSIVE cat(_)
             cat(i) == IF i > Len(items) THEN <<>> ELSE block(i) \o cat(i + 1)
         IN cat(1)

\* util.permute(items, tree): every ordering of the items as a segment list, in
\* both modes
Permute(items, tree) == Perms(items)

(***************************************************************************)
(* The inputs of an index run.                                             *)
(***************************************************************************)
Roots == { <<"/">>, <<"/", "r">> }
OUTPUT == <<"o">>

ta == <<"a">>
tb == <<"b">>
tc == <<"c">>
dotT == <<".", "t">>

\* the files that may exist below the search root: <<sub, base, tags, ext>>
FileSpecs ==
    { << <<>>,         <<"x">>,      <<ta>>,         dotT >>,
      << <<>>,         <<"x">>,      <<ta, tb>>,     dotT >>,
      << <<>>,         <<"y">>,      <<>>,           dotT >>,
      << <<>>,         <<".", "h">>, <<tb>>,         <<>> >>,
      << <<ta>>,       <<"x">>,      <<ta>>,         dotT >>,
      << <<ta>>,       <<"x">>,      <<tb, ta>>,     dotT >>,
      << <<tb>>,       <<"x">>,      <<ta>>,         dotT >>,
      << <<ta, tb>>,   <<"x">>,      <<ta>>,         dotT >>,
      << <<>>,         <<"z">>,      <<tc, ta, tb>>, dotT >> }

DiskChoices == {S \in SUBSET FileSpecs : Cardinality(S) <= MaxFiles}

Flags == [all : BOOLEAN, debug : BOOLEAN, recursive : BOOLEAN,
          tree : BOOLEAN, verbose : BOOLEAN]


(***************************************************************************)
(* The index command, src/tag/cli.py _index.                               *)
(***************************************************************************)
\* os.path.exists(output)
OutputExists(st) == st # "absent"

\* faulty variant of OutputHasContent: no check of OUTPUT at all, as in the
\* older src/src/cli.py
OutputHasContentUnchecked(st) == FALSE

\* os.path.exists(output) and os.listdir(output), for OUTPUT a directory
OutputHasContent(st) == OutputExists(st) /\ st = "nonempty"

\* handle_file: only files with at least one tag are kept
Tagged(files) == {f \in files : Cardinality(f.tags) > 0}

\* faulty variant of IndexKey: only the first tag of the permutation is joined
IndexKeyFirstSegment(file, perm) ==
    LET filename == PathSplit(file.original)[2]
    IN PathJoinAll(OUTPUT, <<perm[1], filename>>)

\* the key one permutation of a file's tags gives
IndexKey(file, perm) ==
    LET filename == PathSplit(file.original)[2]
    IN PathJoinAll(OUTPUT, perm \o <<filename>>)

\* the <<key, file>> appends of the two nested loops, in order
RECURSIVE IndexAppends(_, _)
IndexAppends(fl, tree) ==
    IF fl = <<>> THEN <<>>
    ELSE LET file == Head(fl)
             ps == Permute(Sorted(file.tags), tree)
         IN [k \in 1..Len(ps) |-> <<IndexKey(file, ps[k]), file>>]
            \o IndexAppends(Tail(fl), tree)

\* the index mapping: key -> the files appended under it, in order
BuildIndex(fl, tree) ==
    LET apps == IndexAppends(fl, tree)
        K == {apps[i][1] : i \in 1..Len(apps)}
    IN [k \in K |->
          LET mine == SelectSeq(apps, LAMBDA p : p[1] = k)
          IN [i \in 1..Len(mine) |-> mine[i][2]]]

\* the name of the link of `file` under a key that index_len files claim
LinkName(file, index_len, root) ==
    IF index_len = 1 THEN file.filename
    ELSE LET path == Drop(file.dir, Len(root) + 1)
         IN IF path # <<>>
            THEN LET id == StrJoin(StrSplit(path, "/"), "-")
                     be == SplitExt(file.filename)
                 IN be[1] \o <<"-">> \o id \o be[2]
            ELSE file.filename

\* dst of the link of `file` under `key`
LinkDst(key, file, index_len, root) ==
    PathJoin(PathSplit(key)[1], LinkName(file, index_len, root))

\* the directories os.makedirs(p, exist_ok=True) leaves in place
RECURSIVE DirsOf(_)
DirsOf(p) ==
    IF p = <<>> THEN {}
    ELSE LET head == PathSplit(p)[1]
         IN IF head = p THEN {p} ELSE {p} \cup DirsOf(head)

\* whether os.symlink(src, dst) finds dst taken
DstExists(dst) == dst \in made \/ \E i \in 1..Len(links) : links[i].dst = dst

CurKey == keys[ki]
CurFile == index[CurKey][fi]
CurLen == Len(index[CurKey])
CurDst == LinkDst(CurKey, CurFile, CurLen, abspath)
CurSrc == CurFile.original

LinkLine(dst, src) == [line |-> "link", dst |-> dst, src |-> src, n |-> 0]
SummaryLine(n, message) == [line |-> message, dst |-> <<>>, src |-> <<>>, n |-> n]
\* click.echo() without a message: an empty line
BlankLine == [line |-> "", dst |-> <<>>, src |-> <<>>, n |-> 0]

\* the record of the last tag command: its kind and arguments, the tag set the
\* file had before it, the name before and the name derived, and for a remove
\* that directly follows an add of the same TAGS argument (chain), the tag set
\* before that add
NoTrail == [kind |-> "none", arg |-> <<>>, arg2 |-> <<>>, debug |-> FALSE,
            before |-> {}, original |-> <<>>, derived |-> <<>>,
            chain |-> FALSE, before0 |-> {}]

InitIndex ==
    /\ abspath \in Roots
    /\ \E d \in DiskChoices :
         disk = {MkFile(abspath, s[1], s[2], s[3], s[4]) : s \in d}
    /\ outState \in {"absent", "empty", "nonempty", "file"}
    /\ flags \in Flags
    /\ pc = "start"
    /\ file_list = <<>>
    /\ index = <<>>
    /\ keys = <<>>
    /\ ki = 0
    /\ fi = 0
    /\ count = 0
    /\ made = {}
    /\ links = <<>>
    /\ echoed = <<>>
    /\ err = "none"
    /\ fileName = <<>>
    /\ tagSet = {}
    /\ trail = NoTrail

\* lines 189-192: OUTPUT exists with content
IndexConflict ==
    /\ pc = "start"
    /\ outState # "file"
    /\ OutputHasContent(outState)
    /\ pc' = "error"
    /\ err' = "ClickException"
    /\ UNCHANGED <<abspath, disk, outState, flags, file_list, index, keys, ki, fi,
                   count, made, links, echoed, tvars>>

\* line 189: os.listdir of an OUTPUT that is a regular file raises
IndexNotADirectory ==
    /\ pc = "start"
    /\ outState = "file"
    /\ pc' = "error"
    /\ err' = "NotADirectoryError"
    /\ UNCHANGED <<abspath, disk, outState, flags, file_list, index, keys, ki, fi,
                   count, made, links, echoed, tvars>>

\* the exceptions os.listdir ends the run with when the system refuses the
\* listing of an OUTPUT that exists: a directory the user may not read
\* (PermissionError), or no file descriptor left for the call (a plain OSError),
\* which a regular file meets as well
ListdirErrors == {"PermissionError", "OSError"}
ListdirErrorsAt(st) == IF st = "file" THEN {"OSError"} ELSE ListdirErrors

\* line 189: os.listdir of an existing OUTPUT raises, whether or not a
\* directory holds an entry; nothing catches the exception
IndexListdirRaise ==
    /\ pc = "start"
    /\ OutputExists(outState)
    /\ pc' = "error"
    /\ err' \in ListdirErrorsAt(outState)
    /\ UNCHANGED <<abspath, disk, outState, flags, file_list, index, keys, ki, fi,
                   count, made, links, echoed, tvars>>

\* lines 194-209: discovery (in the order the walk yields) and the index mapping
IndexBuild ==
    /\ pc = "start"
    /\ outState # "file"
    /\ ~OutputHasContent(outState)
    /\ \E fl \in Orderings(Tagged(FindFiles(disk, abspath, flags.recursive, flags.all))) :
         /\ file_list' = fl
         /\ index' = BuildIndex(fl, flags.tree)
    /\ keys' = Sorted(DOMAIN index')
    /\ ki' = 1
    /\ fi' = 1
    /\ count' = 0
    /\ pc' = IF keys' = <<>> THEN "finish" ELSE "key"
    /\ UNCHANGED <<abspath, disk, outState, flags, made, links, echoed, err, tvars>>

\* the directories os.makedirs(parent, exist_ok=True) still has to create:
\* those of the chain that neither an earlier iteration left in place nor, for
\* OUTPUT itself, were there before the run
ToMake ==
    DirsOf(PathSplit(CurKey)[1])
        \ (made \cup IF outState = "empty" THEN {OUTPUT} ELSE {})

\* the exceptions a failing os.makedirs ends the run with: the system refuses
\* the new directory q (PermissionError, or a plain OSError as for a full
\* device), or q is OUTPUT and OUTPUT is a symlink that leads nowhere
\* (os.path.exists(output) is False; FileNotFoundError for a dangling link,
\* NotADirectoryError for a target that runs through a regular file, a plain
\* OSError for a loop)
MakedirsErrors ==
    {"PermissionError", "FileNotFoundError", "NotADirectoryError", "OSError"}
MakedirsErrorsAt(q) ==
    IF q = OUTPUT THEN MakedirsErrors ELSE {"PermissionError", "OSError"}

\* lines 211-215: the head of one iteration of the loop over the sorted keys,
\* os.makedirs succeeding
IndexKeyStep ==
    /\ pc = "key"
    /\ count' = count + CurLen
    /\ made' = IF flags.debug THEN made ELSE made \cup DirsOf(PathSplit(CurKey)[1])
    /\ fi' = 1
    /\ pc' = "link"
    /\ UNCHANGED <<abspath, disk, outState, flags, file_list, index, keys, ki,
                   links, echoed, err, tvars>>

\* lines 211-215: os.makedirs raises at the directory q of the chain; the
\* directories above q are in place, the count has been raised, and nothing
\* catches the exception
IndexMakedirsRaise ==
    /\ pc = "key"
    /\ ~flags.debug
    /\ count' = count + CurLen
    /\ \E q \in ToMake :
         /\ made' = made \cup {d \in DirsOf(PathSplit(CurKey)[1]) : Len(d) < Len(q)}
         /\ err' \in MakedirsErrorsAt(q)
    /\ pc' = "error"
    /\ UNCHANGED <<abspath, disk, outState, flags, file_list, index, keys, ki, fi,
                   links, echoed, tvars>>

\* the loops move on to the next file of the key, the next key, or the end
Advance ==
    IF fi < CurLen THEN /\ fi' = fi + 1
                        /\ ki' = ki
                        /\ pc' = "link"
    ELSE IF ki < Len(keys) THEN /\ fi' = 1
                                /\ ki' = ki + 1
                                /\ pc' = "key"
    ELSE /\ fi' = fi
         /\ ki' = ki
         /\ pc' = "finish"

\* lines 216-238: one link is reported and, unless --debug, created
IndexLink ==
    /\ pc = "link"
    /\ LET dst == CurDst
       IN /\ echoed' = IF flags.verbose THEN Append(echoed, LinkLine(dst, CurSrc)) ELSE echoed
          /\ IF flags.debug
             THEN links' = links
             ELSE /\ ~DstExists(dst)
                  /\ links' = Append(links, [dst |-> dst, src |-> CurSrc])
    /\ Advance
    /\ UNCHANGED <<abspath, disk, outState, flags, file_list, index, keys, count,
                   made, err, tvars>>

\* faulty variant of IndexLinkRaise: the exception is caught and the loops go on
IndexLinkRaiseCaught ==
    /\ pc = "link"
    /\ ~flags.debug
    /\ echoed' = IF flags.verbose THEN Append(echoed, LinkLine(CurDst, CurSrc)) ELSE echoed
    /\ Advance
    /\ UNCHANGED <<abspath, disk, outState, flags, file_list, index, keys,
                   count, made, links, err, tvars>>

\* the exceptions a failing os.symlink ends the run with
SymlinkErrors == {"FileExistsError", "PermissionError", "OSError"}
SymlinkErrorsAt(dst) ==
    IF DstExists(dst) THEN {"FileExistsError"} ELSE {"PermissionError", "OSError"}

\* lines 223, 238: os.symlink raises, because dst exists or the system call
\* fails otherwise; nothing catches the exception
IndexLinkRaise ==
    /\ pc = "link"
    /\ ~flags.debug
    /\ LET dst == CurDst
       IN /\ echoed' = IF flags.verbose THEN Append(echoed, LinkLine(dst, CurSrc)) ELSE echoed
          /\ err' \in SymlinkErrorsAt(dst)
    /\ pc' = "error"
    /\ UNCHANGED <<abspath, disk, outState, flags, file_list, index, keys, ki, fi,
                   count, made, links, tvars>>

\* lines 239-242: the closing message
IndexFinish ==
    /\ pc = "finish"
    /\ echoed' = IF flags.verbose /\ count > 0
                 THEN echoed \o <<BlankLine,
                                  SummaryLine(count, IF flags.debug THEN "to index" ELSE "indexed")>>
                 ELSE echoed
    /\ pc' = "done"
    /\ UNCHANGED <<abspath, disk, outState, flags, file_list, index, keys, ki, fi,
                   count, made, links, err, tvars>>

NextIndex ==
    \/ IndexConflict
    \/ IndexNotADirectory
    \/ IndexListdirRaise
    \/ IndexBuild
    \/ IndexKeyStep
    \/ IndexMakedirsRaise
    \/ IndexLink
    \/ IndexLinkRaise
    \/ IndexFinish

SpecIndex == InitIndex /\ [][NextIndex]_vars

(***************************************************************************)
(* The tag commands, src/tag/cli.py _add, _clear, _remove, _rename, _set,  *)
(* _sort, each a handler handed to util.rename_files.                      *)
(***************************************************************************)
\* letters, digits and '-': the characters of a tag
TagChars == {"a", "b", "c", "h", "o", "r", "t", "x", "y", "z", "-"}
ValidTag(t) == t # <<>> /\ Range(t) \subseteq TagChars

\* the trailing {tag} blocks of a name without its extension: <<base, tags>>
RECURSIVE StripBlocks(_)
StripBlocks(stem) ==
    LET n == Len(stem)
        j == LastIndex(stem, "{")
    IN IF n > 0 /\ stem[n] = "}" /\ j > 0 /\ ValidTag(SubSeq(stem, j + 1, n - 1))
       THEN LET rest == StripBlocks(SubSeq(stem, 1, j - 1))
            IN <<rest[1], Append(rest[2], SubSeq(stem, j + 1, n - 1))>>
       ELSE <<stem, <<>> >>

\* the tag codec's parse: name -> [base, tags, ext]
ParseName(name) ==
    LET be == SplitExt(name)
        bt == StripBlocks(be[1])
    IN [base |-> bt[1], tags |-> Range(bt[2]), ext |-> be[2]]

\* the tag codec's serialize, as rename_files uses it: one block per tag, in
\* ascending order
GenerateName(base, tags, ext) == base \o TagBlocks(Sorted(tags)) \o ext

\* a name of the grammar <base>{tag}...{tag}<ext>, the base free of braces
WellFormed(name) ==
    LET f == ParseName(name)
    IN /\ f.base # <<>>
       /\ Range(f.base) \cap {"{", "}"} = {}

\* faulty variant of AddHandler: the tag set is replaced instead of updated
AddHandlerReplace(tag_set, tags) == Range(StrSplit(tags, ","))

\* tags.split(',') and tag_set.update(tag_list)
AddHandler(tag_set, tags) == tag_set \cup Range(StrSplit(tags, ","))

\* tags.split(',') and tag_set.difference_update(tag_list)
RemoveHandler(tag_set, tags) == tag_set \ Range(StrSplit(tags, ","))

\* tag_set.clear()
ClearHandler(tag_set) == {}

\* tag_set.clear(); tag_set.update(tag_list)
SetHandler(tag_set, tags) == {} \cup Range(StrSplit(tags, ","))

\* faulty variant of RenameHandler: the test for old_tag is missing
RenameHandlerUnguarded(tag_set, old_tag, new_tag) ==
    (tag_set \ {old_tag}) \cup {new_tag}

\* _rename.tag_handler
RenameHandler(tag_set, old_tag, new_tag) ==
    IF old_tag \in tag_set THEN (tag_set \ {old_tag}) \cup {new_tag} ELSE tag_set

\* lambda tag_set: tag_set
SortHandler(tag_set) == tag_set

\* the lists over S of length 1..n
RECURSIVE ListsUpTo(_, _)
ListsUpTo(S, n) ==
    IF n = 0 THEN {}
    ELSE LET shorter == ListsUpTo(S, n - 1)
         IN {<<x>> : x \in S} \cup shorter \cup {Append(l, x) : l \in shorter, x \in S}

\* the command line arguments tried: the items of a TAGS argument (two proper
\* tags, the empty string and a brace), TAGS as the items joined by commas, and
\* OLD_TAG / NEW_TAG as an item or a string with a comma
ArgItems == {<<>>, ta, tb, <<"{">>}
TagsArgs == {StrJoin(l, ",") : l \in ListsUpTo(ArgItems, MaxListLen)}
TagArgs == ArgItems \cup {<<"a", ",", "b">>}

\* the names the file may have when the session starts
InitTagLists == UNION {Orderings(S) : S \in SUBSET {ta, tb}}

InitTags ==
    /\ fileName \in {<<"x">> \o TagBlocks(ts) \o dotT : ts \in InitTagLists}
    /\ tagSet = ParseName(fileName).tags
    /\ trail = NoTrail
    /\ pc = "tags"
    /\ abspath = <<"/">>
    /\ disk = {}
    /\ outState = "absent"
    /\ flags \in {f \in Flags : ~f.all /\ ~f.recursive /\ ~f.tree /\ ~f.verbose}
    /\ file_list = <<>>
    /\ index = <<>>
    /\ keys = <<>>
    /\ ki = 0
    /\ fi = 0
    /\ count = 0
    /\ made = {}
    /\ links = <<>>
    /\ echoed = <<>>
    /\ err = "none"

\* util.rename_files for the one file, whose parsed name is `file`: the handler
\* has turned the tag set into `result`; the new name is derived and, unless
\* --debug, the file is renamed when the name differs
RenameFiles(file, kind, arg, arg2, result) ==
    LET derived == GenerateName(file.base, result, file.ext)
        chained == /\ kind = "remove"
                   /\ trail.kind = "add"
                   /\ trail.arg = arg
    IN /\ tagSet' = result
       /\ fileName' = IF flags.debug THEN fileName ELSE derived
       /\ trail' = [kind |-> kind, arg |-> arg, arg2 |-> arg2, debug |-> flags.debug,
                    before |-> file.tags, original |-> fileName, derived |-> derived,
                    chain |-> chained,
                    before0 |-> IF chained THEN trail.before ELSE {}]
       /\ UNCHANGED ivars

\* a command is given the file while its name is one of the grammar
\* <base>{tag}...{tag}<ext>; once a command has written a tag outside the
\* grammar into the name, what a later parse makes of it is not specified and
\* the session is not followed further
CanRun == pc = "tags" /\ WellFormed(fileName)

CmdAdd ==
    /\ CanRun
    /\ LET file == ParseName(fileName)
       IN \E tags \in TagsArgs :
            RenameFiles(file, "add", tags, <<>>, AddHandler(file.tags, tags))

CmdRemove ==
    /\ CanRun
    /\ LET file == ParseName(fileName)
       IN \E tags \in TagsArgs :
            RenameFiles(file, "remove", tags, <<>>, RemoveHandler(file.tags, tags))

CmdClear ==
    /\ CanRun
    /\ LET file == ParseName(fileName)
       IN RenameFiles(file, "clear", <<>>, <<>>, ClearHandler(file.tags))

CmdSet ==
    /\ CanRun
    /\ LET file == ParseName(fileName)
       IN \E tags \in TagsArgs :
            RenameFiles(file, "set", tags, <<>>, SetHandler(file.tags, tags))

CmdRename ==
    /\ CanRun
    /\ LET file == ParseName(fileName)
       IN \E old_tag \in TagArgs, new_tag \in TagArgs :
            RenameFiles(file, "rename", old_tag, new_tag,
                        RenameHandler(file.tags, old_tag, new_tag))

CmdSort ==
    /\ CanRun
    /\ LET file == ParseName(fileName)
       IN RenameFiles(file, "sort", <<>>, <<>>, SortHandler(file.tags))

NextTags ==
    \/ CmdAdd
    \/ CmdRemove
    \/ CmdClear
    \/ CmdSet
    \/ CmdRename
    \/ CmdSort

SpecTags == InitTags /\ [][NextTags]_vars

(***************************************************************************)
(* What one index run plans, and where its loops stand.                    *)
(***************************************************************************)
\* the [dst, src] pairs of the files under keys[i..], in loop order
RECURSIVE PlannedFrom(_)
PlannedFrom(i) ==
    IF i > Len(keys) THEN <<>>
    ELSE LET fs == index[keys[i]]
         IN [j \in 1..Len(fs) |->
                [dst |-> LinkDst(keys[i], fs[j], Len(fs), abspath),
                 src |-> fs[j].original]]
            \o PlannedFrom(i + 1)

\* every [dst, src] pair the loop over sorted(index.keys()) computes
PlannedLinks == PlannedFrom(1)

\* the first n of the [dst, src] pairs of the files under keys[i..]:
\* PlannedUpTo(1, n) = SubSeq(PlannedLinks, 1, n)
RECURSIVE PlannedUpTo(_, _)
PlannedUpTo(i, n) ==
    IF n <= 0 \/ i > Len(keys) THEN <<>>
    ELSE LET fs == index[keys[i]]
             m == IF n < Len(fs) THEN n ELSE Len(fs)
         IN [j \in 1..m |->
                [dst |-> LinkDst(keys[i], fs[j], Len(fs), abspath),
                 src |-> fs[j].original]]
            \o PlannedUpTo(i + 1, n - m)

\* the number of links the loops have passed before the current one
RECURSIVE PassedBefore(_)
PassedBefore(i) == IF i <= 1 THEN 0 ELSE Len(index[keys[i - 1]]) + PassedBefore(i - 1)
LoopPos == PassedBefore(ki) + fi

\* Len(PlannedLinks)
PlannedCount == PassedBefore(Len(keys) + 1)

\* the failures that have no cause in the run itself
OutsideErrors == ListdirErrors \cup MakedirsErrors \cup (SymlinkErrors \ {"FileExistsError"})

\* the index mapping has been built: the loops have begun or are over
Built ==
    \/ pc \in {"key", "link", "finish", "done"}
    \/ (pc = "error" /\ ki >= 1)

\* the run ended at os.makedirs: the parent directory of the current key is
\* missing
FailedAtMakedirs ==
    /\ pc = "error"
    /\ ki >= 1
    /\ PathSplit(CurKey)[1] \notin made

\* the index mapping has just been built: the loop over the sorted keys, which
\* assigns neither file_list nor index, has not begun
JustBuilt == Built /\ count = 0

Ended == pc \in {"done", "error"}

\* the link lines printed so far, as [dst, src] pairs
EchoedLinks ==
    LET ls == SelectSeq(echoed, LAMBDA e : e.line = "link")
    IN [i \in 1..Len(ls) |-> [dst |-> ls[i].dst, src |-> ls[i].src]]

RECURSIVE Factorial(_)
Factorial(n) == IF n <= 1 THEN 1 ELSE n * Factorial(n - 1)

\* the segments of a path
PathSegments(p) == SelectSeq(StrSplit(p, "/"), LAMBDA x : x # <<>>)

\* the segments of a file's directory relative to the search root
RelativeSegments(file) == Drop(PathSegments(file.dir), Len(PathSegments(abspath)))

\* <base>-<id><ext> for a file below the search root, the plain name for a file
\* in the search root
DisambiguatedName(file) ==
    LET rel == RelativeSegments(file)
        be == SplitExt(file.filename)
    IN IF rel = <<>> THEN file.filename
       ELSE be[1] \o <<"-">> \o StrJoin(rel, "-") \o be[2]

(***************************************************************************)
(* C1, as claimed. index never writes into a non-empty OUTPUT: when OUTPUT  *)
(* exists and holds an entry, the run leaves its start only for the error  *)
(* exit with the ClickException, and no directory and no link is ever      *)
(* created, whatever the files and the flags.  The statement fails for an  *)
(* OUTPUT that cannot be listed: the error is that of os.listdir.          *)
(***************************************************************************)
C1_NonEmptyOutputRefused ==
    outState = "nonempty" =>
        /\ made = {}
        /\ links = <<>>
        /\ pc \in {"start", "error"}
        /\ pc = "start" => (ENABLED IndexConflict /\ ~ENABLED IndexBuild)
        /\ pc = "error" => err = "ClickException"

(***************************************************************************)
(* C1, amended. When OUTPUT exists and holds an entry no directory and no  *)
(* link is ever created and the index is never built, whatever the files   *)
(* and the flags: the run leaves its start only for an error exit, with    *)
(* the ClickException or, when OUTPUT cannot be listed, with the exception *)
(* of os.listdir.                                                          *)
(***************************************************************************)
C1_RefusedOrUnlisted ==
    outState = "nonempty" =>
        /\ made = {}
        /\ links = <<>>
        /\ echoed = <<>>
        /\ index = <<>>
        /\ pc \in {"start", "error"}
        /\ pc = "start" => (ENABLED IndexConflict /\ ~ENABLED IndexBuild)
        /\ pc = "error" => err \in {"ClickException"} \cup ListdirErrors

C1_Witness ==
    /\ outState = "nonempty"
    /\ pc = "error"
    /\ err = "ClickException"
    /\ ~flags.debug
    /\ flags.recursive
    /\ Cardinality(Tagged(disk)) = 2

(***************************************************************************)
(* C2. Collision disambiguation: under every key that two or more files    *)
(* claim, a file below the search root is named <base>-<id><ext>, <id> the *)
(* segments of its directory relative to the search root joined by '-',    *)
(* and a file in the search root keeps its plain name; a/x{a}.t and        *)
(* b/x{a}.t give exactly the links OUTPUT/a/x-a.t and OUTPUT/a/x-b.t.      *)
(* The statement fails for the search root '/'.                            *)
(***************************************************************************)
C2_CollisionNames ==
    Built =>
        /\ \A k \in DOMAIN index :
             Len(index[k]) >= 2 =>
                \A j \in 1..Len(index[k]) :
                    LinkName(index[k][j], Len(index[k]), abspath)
                        = DisambiguatedName(index[k][j])
        /\ ( /\ disk = {MkFile(abspath, <<ta>>, <<"x">>, <<ta>>, dotT),
                        MkFile(abspath, <<tb>>, <<"x">>, <<ta>>, dotT)}
             /\ flags.recursive )
           => {PlannedLinks[i].dst : i \in 1..Len(PlannedLinks)}
                = { <<"o", "/", "a", "/", "x", "-", "a", ".", "t">>,
                    <<"o", "/", "a", "/", "x", "-", "b", ".", "t">> }

(***************************************************************************)
(* C3. One link per (placement path, file) pair: no two pairs of a run are *)
(* given the same destination, and no os.symlink call finds its            *)
(* destination taken by an earlier link of the run.  The statement fails;  *)
(* it is put for the search roots other than '/', where the violation does *)
(* not rest on the slip of C2.                                             *)
(***************************************************************************)
C3_DistinctDestinations ==
    (Built /\ abspath # <<"/">>) =>
        /\ \A i, j \in 1..Len(PlannedLinks) :
             i # j => PlannedLinks[i].dst # PlannedLinks[j].dst
        /\ err # "FileExistsError"

(***************************************************************************)
(* C4. Dry run: with --debug nothing is created, and the pairs the run     *)
(* reports are the pairs a run without --debug on the same inputs creates  *)
(* (no system call failing for a reason outside the run).  The second part *)
(* fails when two planned links share a destination (C3); it is put for    *)
(* the search roots other than '/', as C3 is.                              *)
(***************************************************************************)
C4_DryRunMatchesRealRun ==
    /\ flags.debug => (made = {} /\ links = <<>>)
    /\ (pc = "done" /\ flags.debug /\ flags.verbose) => EchoedLinks = PlannedLinks
    /\ (Built /\ Ended /\ ~flags.debug /\ err \notin OutsideErrors /\ abspath # <<"/">>)
         => links = PlannedLinks

(***************************************************************************)
(* C8, as claimed. When the creation of one link fails the run goes on:    *)
(* once the run has ended (not by a failing os.makedirs), every other      *)
(* planned link has been created.  The statement fails: the exception ends *)
(* the run.                                                                *)
(***************************************************************************)
C8_ContinuesAfterFailure ==
    (Built /\ Ended /\ ~flags.debug /\ ~FailedAtMakedirs) =>
        \A i \in 1..Len(PlannedLinks) :
            (pc = "error" /\ i = LoopPos) \/ (\E j \in 1..Len(links) : links[j] = PlannedLinks[i])

(***************************************************************************)
(* C8, amended. Nothing catches a failing os.symlink: the run ends at that *)
(* link, the links created before it stay and no later link is created;    *)
(* the links created are at any time the first ones planned, and all of    *)
(* them once a run without --debug is done.  A failing os.makedirs ends    *)
(* the run in the same way, before the first link of its key.  With        *)
(* --debug no link is created and the loops do not fail.                   *)
(***************************************************************************)
C8_FailureAborts ==
    Built =>
        IF flags.debug
        THEN /\ links = <<>>
             /\ pc # "error"
        ELSE /\ Len(links) <= PlannedCount
             /\ links = PlannedUpTo(1, Len(links))
             /\ pc = "done" => Len(links) = PlannedCount
             /\ pc = "error" =>
                  /\ Len(links) = LoopPos - 1
                  /\ IF FailedAtMakedirs
                     THEN fi = 1 /\ err \in MakedirsErrors
                     ELSE err \in SymlinkErrors
                  /\ ~ENABLED NextIndex

C8_Witness ==
    /\ pc = "error"
    /\ err = "OSError"
    /\ ~FailedAtMakedirs
    /\ links # <<>>
    /\ Len(links) + 1 < Len(PlannedLinks)

(***************************************************************************)
(* C9. The count of the closing message is the number of files placed:     *)
(* each discovered file with a tag counts once, however many placement     *)
(* paths it has.  The statement fails: the code counts the links.          *)
(***************************************************************************)
C9_CountIsFiles ==
    pc = "done" =>
        /\ count = Len(file_list)
        /\ \A i \in 1..Len(echoed) :
             echoed[i].line \notin {"link", ""} => echoed[i].n = Cardinality(Tagged(disk) \cap Range(file_list))

(***************************************************************************)
(* C10. Flat mode placement: for a discovered file with N >= 1 tags the    *)
(* permutations of its sorted tag list are N! lists without duplicates,    *)
(* each an ordering of the tags, and the file is appended once under each  *)
(* of exactly N! distinct keys, OUTPUT/<tag>/<name> alone when N = 1.      *)
(* Files with equal tag sets are given the same list, in the same order.   *)
(* Stated on the index as the build leaves it.                             *)
(***************************************************************************)
C10_FlatPlacement ==
    (JustBuilt /\ ~flags.tree) =>
        \A n \in 1..Len(file_list) :
            LET file == file_list[n]
                N == Cardinality(file.tags)
                ps == Permute(Sorted(file.tags), flags.tree)
                name == PathSplit(file.original)[2]
                K == {k \in DOMAIN index : \E j \in 1..Len(index[k]) : index[k][j] = file}
            IN /\ Len(ps) = Factorial(N)
               /\ \A i, j \in 1..Len(ps) : i # j => ps[i] # ps[j]
               /\ \A i \in 1..Len(ps) : Len(ps[i]) = N /\ Range(ps[i]) = file.tags
               /\ Cardinality(K) = Factorial(N)
               /\ \A k \in K : Cardinality({j \in 1..Len(index[k]) : index[k][j] = file}) = 1
               /\ K = {PathJoinAll(OUTPUT, ps[i] \o <<name>>) : i \in 1..Len(ps)}
               /\ \A m \in 1..Len(file_list) :
                    file_list[m].tags = file.tags
                        => Permute(Sorted(file_list[m].tags), flags.tree) = ps
               /\ N = 1 => \E t \in file.tags :
                             K = {OUTPUT \o <<"/">> \o t \o <<"/">> \o name}

C10_Witness ==
    /\ JustBuilt
    /\ pc = "key"
    /\ ~flags.tree
    /\ \E n \in 1..Len(file_list) : Cardinality(file_list[n].tags) = 3
    /\ \E n \in 1..Len(file_list) : Cardinality(file_list[n].tags) = 1

(***************************************************************************)
(* C5, as claimed. add TAGS followed by remove of the same TAGS gives back *)
(* the tag set the file had before the add.  The statement fails when a    *)
(* tag of TAGS was on the file already.                                    *)
(***************************************************************************)
C5_AddRemoveRestores ==
    trail.chain => tagSet = trail.before0

(***************************************************************************)
(* C5, amended. add TAGS followed by remove of the same TAGS leaves the    *)
(* original tag set minus the tags of TAGS: the original set exactly when  *)
(* none of the tags was on the file before.                                *)
(***************************************************************************)
C5_AddRemoveDifference ==
    trail.chain =>
        LET L == Range(StrSplit(trail.arg, ","))
        IN /\ tagSet = trail.before0 \ L
           /\ (tagSet = trail.before0) <=> (trail.before0 \cap L = {})

C5_Witness ==
    /\ trail.chain
    /\ ~trail.debug
    /\ Cardinality(Range(StrSplit(trail.arg, ","))) = 2
    /\ trail.before0 \cap Range(StrSplit(trail.arg, ",")) # {}
    /\ tagSet # trail.before0

(***************************************************************************)
(* C6. Every tag of the tag set a command leaves is a non-empty string of  *)
(* letters, digits and hyphens, free of '{', '}' and ','.  The statement   *)
(* fails: the arguments are taken as they are.                             *)
(***************************************************************************)
C6_TagsStayValid ==
    \A t \in tagSet : ValidTag(t) /\ Range(t) \cap {"{", "}", ","} = {}

(***************************************************************************)
(* C7, as claimed. rename OLD NEW on a file without OLD leaves the tag set *)
(* as it is and derives no new name; with OLD on the file the tag set is   *)
(* (S \ {OLD}) \cup {NEW}.  The statement fails for a file whose tag       *)
(* blocks are not in ascending order.                                      *)
(***************************************************************************)
C7_RenameAbsentKeepsName ==
    trail.kind = "rename" =>
        /\ trail.arg \notin trail.before =>
             (tagSet = trail.before /\ trail.derived = trail.original)
        /\ trail.arg \in trail.before =>
             tagSet = (trail.before \ {trail.arg}) \cup {trail.arg2}

(***************************************************************************)
(* C7, amended. rename OLD NEW on a file without OLD leaves the tag set as *)
(* it is; the name derived is the old one exactly when the file's tag      *)
(* blocks are in ascending order already (the command then acts as sort).  *)
(* With OLD on the file the tag set is (S \ {OLD}) \cup {NEW}.             *)
(***************************************************************************)
C7_RenameAbsentSorts ==
    trail.kind = "rename" =>
        /\ trail.arg \notin trail.before =>
             /\ tagSet = trail.before
             /\ (trail.derived = trail.original)
                  <=> (StripBlocks(SplitExt(trail.original)[1])[2] = Sorted(trail.before))
        /\ trail.arg \in trail.before =>
             tagSet = (trail.before \ {trail.arg}) \cup {trail.arg2}

C7_Witness ==
    /\ trail.kind = "rename"
    /\ ~trail.debug
    /\ trail.arg \notin trail.before
    /\ trail.arg2 \in trail.before
    /\ tagSet = trail.before
    /\ trail.derived # trail.original
    /\ fileName = trail.derived

=============================================================================
